---------------------------- MODULE Spec2Model ----------------------------
(***************************************************************************)
(* Control transport and wire protocol of the sup daemon                   *)
(* (src/src/controller/command.rs): the Command / Request / Response       *)
(* codec and the Unix-domain-socket transport with its channel bridge.     *)
(*                                                                         *)
(* Representation.                                                         *)
(*  - A byte is a number in 0..255, a Vec<u8> a sequence of bytes.         *)
(*  - A String is the sequence of its UTF-8 bytes (Rust's own              *)
(*    representation): String::into_bytes hands that vector out and        *)
(*    String::from_utf8 validates a vector before wrapping it.             *)
(*  - Option<T>: None is <<>>, Some(x) is <<x>>.                           *)
(*  - A u32 is a pair <<hi, lo>> of 16-bit halves, value hi * 2^16 + lo,   *)
(*    because the model checker's integers are 32-bit signed and the PID   *)
(*    field ranges over all of 0..2^32-1.                                  *)
(***************************************************************************)
EXTENDS Integers, Sequences, FiniteSets, TLC

(***************************************************************************)
(* Bounds of the model.                                                    *)
(***************************************************************************)
\* longest message of a Response drawn as an input of the codec
MaxMsgLen == 2
\* longest byte vector drawn as a raw input of the decoders
MaxWireLen == 5

\* command.rs:13
BYTES_PER_PID == 4

None == << >>
Some(x) == << x >>

Byte == 0..255
Half == 2^16

(***************************************************************************)
(* u32 arithmetic on <<hi, lo>>.                                           *)
(***************************************************************************)
U32(hi, lo) == << hi, lo >>

\* (pid >> k) as u8, for a shift k in 0..31: the eight bits k..k+7 of pid.
ShrAsU8(pid, k) ==
    IF k >= 16
    THEN (pid[1] \div 2^(k - 16)) % 256
    ELSE ((pid[2] \div 2^k) + (pid[1] % 256) * 2^(16 - k)) % 256

\* pid as u8
AsU8(pid) == pid[2] % 256

\* (e as u32) << sh for a shift sh in 0..31; bits shifted past bit 31 are lost.
ShlU32(e, sh) ==
    IF sh >= 16
    THEN U32((e * 2^(sh - 16)) % Half, 0)
    ELSE U32((e * 2^sh) \div Half, (e * 2^sh) % Half)

\* a + b without wrapping: <<carry out of bit 31, the wrapped sum>>
AddU32(a, b) ==
    LET lo == a[2] + b[2]
        hi == a[1] + b[1] + (lo \div Half)
    IN  << hi \div Half, U32(hi % Half, lo % Half) >>


(***************************************************************************)
(* Command and Request codec.                                              *)
(***************************************************************************)
NamedCommands == {"Start", "Stop", "Restart", "Kill", "Reload", "Status", "Exit"}

\* command.rs:133-151  enum Command
Command == NamedCommands \cup {"Unknown"}

\* outcomes of a call that may abort the process
Ok(x) == [kind |-> "Ok", val |-> x]
Panic(why) == [kind |-> "Panic", why |-> why]

\* Vec::get(0).unwrap(): the first byte, or a panic on an empty vector
GetFirstUnwrap(code) ==
    IF Len(code) = 0 THEN Panic("unwrap on None") ELSE Ok(code[1])

\* the same decoder without the length guard of command.rs:237-239
CommandFromVec_NoLenGuard(code) ==
    LET b == GetFirstUnwrap(code)
    IN  IF b.kind = "Panic"
        THEN b
        ELSE CASE b.val = 0 -> Ok("Start")
               [] b.val = 1 -> Ok("Stop")
               [] b.val = 2 -> Ok("Restart")
               [] b.val = 3 -> Ok("Kill")
               [] b.val = 4 -> Ok("Reload")
               [] b.val = 5 -> Ok("Status")
               [] b.val = 6 -> Ok("Exit")
               [] OTHER -> Ok("Unknown")

\* command.rs:235-251  impl From<Vec<u8>> for Command
CommandFromVec(code) ==
    IF Len(code) # 1
    THEN Ok("Unknown")
    ELSE LET b == GetFirstUnwrap(code)
         IN  IF b.kind = "Panic"
             THEN b
             ELSE CASE b.val = 0 -> Ok("Start")
                    [] b.val = 1 -> Ok("Stop")
                    [] b.val = 2 -> Ok("Restart")
                    [] b.val = 3 -> Ok("Kill")
                    [] b.val = 4 -> Ok("Reload")
                    [] b.val = 5 -> Ok("Status")
                    [] b.val = 6 -> Ok("Exit")
                    [] OTHER -> Ok("Unknown")

\* the encoder with the codes of Exit and Unknown exchanged
VecFromCommand_ExitAs7(c) ==
    CASE c = "Start" -> << 0 >>
      [] c = "Stop" -> << 1 >>
      [] c = "Restart" -> << 2 >>
      [] c = "Kill" -> << 3 >>
      [] c = "Reload" -> << 4 >>
      [] c = "Status" -> << 5 >>
      [] c = "Exit" -> << 7 >>
      [] c = "Unknown" -> << 6 >>

\* command.rs:253-266  impl From<Command> for Vec<u8>
VecFromCommand(c) ==
    CASE c = "Start" -> << 0 >>
      [] c = "Stop" -> << 1 >>
      [] c = "Restart" -> << 2 >>
      [] c = "Kill" -> << 3 >>
      [] c = "Reload" -> << 4 >>
      [] c = "Status" -> << 5 >>
      [] c = "Exit" -> << 6 >>
      [] c = "Unknown" -> << 7 >>

\* command.rs:268-272  impl From<Vec<u8>> for Request
RequestFromVec(v) ==
    LET c == CommandFromVec(v)
    IN  IF c.kind = "Panic" THEN c ELSE Ok([cmd |-> c.val])

\* command.rs:274-278  impl From<Request> for Vec<u8>
VecFromRequest(r) == VecFromCommand(r.cmd)

(***************************************************************************)
(* Response codec.                                                         *)
(***************************************************************************)
\* a sentinel of all ones instead of zero
NONE_PID_AllOnes == U32(Half - 1, Half - 1)

\* command.rs:302
NONE_PID == U32(0, 0)

\* command.rs:230-232  Response::new
Response(message, sup_pid) == [message |-> message, sup_pid |-> sup_pid]

\* The build decides what an arithmetic overflow does: a debug build panics,
\* a release build wraps (and masks an over-wide shift amount).
Builds == {"debug", "release"}

RECURSIVE IsUtf8From(_, _)
\* String::from_utf8's validation (well-formed UTF-8 byte sequences) of v[i..]
IsUtf8From(v, i) ==
    IF i > Len(v)
    THEN TRUE
    ELSE LET b == v[i]
             cont(k) == i + k <= Len(v) /\ v[i + k] \in 128..191
             second(lo, hi) == i + 1 <= Len(v) /\ v[i + 1] \in lo..hi
         IN  CASE b <= 127 -> IsUtf8From(v, i + 1)
               [] b \in 194..223 -> cont(1) /\ IsUtf8From(v, i + 2)
               [] b = 224 -> second(160, 191) /\ cont(2) /\ IsUtf8From(v, i + 3)
               [] b \in 225..236 \/ b \in 238..239 ->
                      cont(1) /\ cont(2) /\ IsUtf8From(v, i + 3)
               [] b = 237 -> second(128, 159) /\ cont(2) /\ IsUtf8From(v, i + 3)
               [] b = 240 ->
                      second(144, 191) /\ cont(2) /\ cont(3) /\ IsUtf8From(v, i + 4)
               [] b \in 241..243 ->
                      cont(1) /\ cont(2) /\ cont(3) /\ IsUtf8From(v, i + 4)
               [] b = 244 ->
                      second(128, 143) /\ cont(2) /\ cont(3) /\ IsUtf8From(v, i + 4)
               [] OTHER -> FALSE

IsUtf8(v) == IsUtf8From(v, 1)

\* command.rs:303-305
marshal_msg(r) == r.message

\* the PID field written least-significant byte first
marshal_sup_pid_LsbFirst(r) ==
    LET pid == IF r.sup_pid = None THEN NONE_PID ELSE r.sup_pid[1]
    IN  << AsU8(pid), ShrAsU8(pid, 8), ShrAsU8(pid, 16), ShrAsU8(pid, 24) >>

\* command.rs:307-319
marshal_sup_pid(r) ==
    LET pid == IF r.sup_pid = None THEN NONE_PID ELSE r.sup_pid[1]
    IN  << ShrAsU8(pid, 24), ShrAsU8(pid, 16), ShrAsU8(pid, 8), AsU8(pid) >>

\* command.rs:321-323: String::from_utf8(v).unwrap()
unmarshal_msg(s, v) ==
    IF IsUtf8(v)
    THEN Ok([s EXCEPT !.message = v])
    ELSE Panic("unwrap on FromUtf8Error")

RECURSIVE SumShifted_MsbFirst(_, _, _, _)
\* the loop shifting byte i by 8 * (3 - i): the first byte most significant
SumShifted_MsbFirst(build, pid, v, i) ==
    IF i >= Len(v)
    THEN Ok(pid)
    ELSE LET sh == 8 * (3 - i)
             sum == AddU32(pid, ShlU32(v[i + 1], sh % 32))
         IN  IF build = "debug" /\ (sh >= 32 \/ sum[1] # 0)
             THEN Panic("arithmetic overflow")
             ELSE SumShifted_MsbFirst(build, sum[2], v, i + 1)

RECURSIVE SumShifted(_, _, _, _)
\* command.rs:330-332: the loop, from the (0-based) index i on
SumShifted(build, pid, v, i) ==
    IF i >= Len(v)
    THEN Ok(pid)
    ELSE LET sh == 8 * i
             sum == AddU32(pid, ShlU32(v[i + 1], sh % 32))
         IN  IF build = "debug" /\ (sh >= 32 \/ sum[1] # 0)
             THEN Panic("arithmetic overflow")
             ELSE SumShifted(build, sum[2], v, i + 1)

\* command.rs:325-340
unmarshal_sup_pid(build, s, v) ==
    IF s.sup_pid = None
    THEN Ok(s)
    ELSE LET r == SumShifted(build, s.sup_pid[1], v, 0)
         IN  IF r.kind = "Panic"
             THEN r
             ELSE IF r.val = NONE_PID
                  THEN Ok([s EXCEPT !.sup_pid = None])
                  ELSE Ok([s EXCEPT !.sup_pid = Some(r.val)])

\* command.rs:280-287  impl From<Response> for Vec<u8>
VecFromResponse(r) == marshal_sup_pid(r) \o marshal_msg(r)

\* a decoder that hands the whole vector, not its first four bytes, to
\* unmarshal_sup_pid
ResponseFromVec_WholeVec(build, v) ==
    IF Len(v) < BYTES_PER_PID
    THEN Panic("slice index out of range")
    ELSE LET s0 == Response(<< >>, Some(U32(0, 0)))
             r1 == unmarshal_sup_pid(build, s0, v)
         IN  IF r1.kind = "Panic"
             THEN r1
             ELSE unmarshal_msg(r1.val, SubSeq(v, BYTES_PER_PID + 1, Len(v)))

\* command.rs:289-299  impl From<Vec<u8>> for Response
ResponseFromVec(build, v) ==
    IF Len(v) < BYTES_PER_PID
    THEN Panic("slice index out of range")
    ELSE LET s0 == Response(<< >>, Some(U32(0, 0)))
             r1 == unmarshal_sup_pid(build, s0, SubSeq(v, 1, BYTES_PER_PID))
         IN  IF r1.kind = "Panic"
             THEN r1
             ELSE unmarshal_msg(r1.val, SubSeq(v, BYTES_PER_PID + 1, Len(v)))

(***************************************************************************)
(* Inputs of the codec.                                                    *)
(***************************************************************************)
SeqsUpTo(S, n) == UNION {[1..k -> S] : k \in 0..n}

\* the u32 whose big-endian bytes are b3 b2 b1 b0
U32FromBytes(b3, b2, b1, b0) == U32(b3 * 256 + b2, b1 * 256 + b0)

\* 4242 = 0x00001092
Pid4242 == U32FromBytes(0, 0, 16, 146)

PidBytes == {0, 1, 16, 146, 255}
PidSamples ==
    {U32FromBytes(b3, b2, b1, b0) : b3 \in PidBytes, b2 \in PidBytes,
                                    b1 \in PidBytes, b0 \in PidBytes}

\* 'a', and the two bytes of U+00E9
MsgBytes == {97, 195, 169}
\* "started"
Started == << 115, 116, 97, 114, 116, 101, 100 >>
Messages == {m \in SeqsUpTo(MsgBytes, MaxMsgLen) : IsUtf8(m)} \cup {Started}

Responses ==
    {Response(m, p) : m \in Messages, p \in {None} \cup {Some(q) : q \in PidSamples}}

\* bytes a peer may put on the wire
WireBytes == {0, 1, 7, 97, 195, 169}
WireVecs == SeqsUpTo(WireBytes, MaxWireLen) \cup {<< b >> : b \in Byte}

(***************************************************************************)
(* The codec as a state machine, one exchange: a value is encoded onto the *)
(* wire, or a peer puts raw bytes there, and the receiving side decodes    *)
(* the wire.                                                               *)
(***************************************************************************)
VARIABLES
    fsPath,      \* a file exists at the socket path
    servePc,     \* where serve() is: "start", "bind", "accept", "panicked"
    srv,         \* the server's transport
    backlog,     \* connections the listener has not accepted yet
    acceptHist,  \* what accept() returned, in order: a connection, or 0 for Err
    chan,        \* the queue of the server's channel
    log,         \* how many times each error! line of serve() ran
    readPc,      \* per reader: "idle", or "waiting" (inside read())
    lastRead,    \* what the last read() that returned has returned
    reads,       \* the connections read() returned, in order
    client,      \* per client: its transport
    cstate,      \* per client: "live", "consumed" (by write), "panicked"
    wres,        \* per client: its write() call and what it returned
    cresp,       \* per client: the Response it decoded
    conns        \* the connections opened so far

tpVars ==
    << fsPath, servePc, srv, backlog, acceptHist, chan, log, readPc, lastRead,
       reads, client, cstate, wres, cresp, conns >>

VARIABLES cSent, cWire, cRcvd

codecVars == << cSent, cWire, cRcvd >>

vars == << cSent, cWire, cRcvd, tpVars >>

Nothing == [type |-> "none"]

InitCodec ==
    /\ cSent = Nothing
    /\ cWire = << >>
    /\ cRcvd = Nothing

EncodeCommand ==
    /\ cSent = Nothing
    /\ \E c \in Command :
           /\ cSent' = [type |-> "Command", val |-> c]
           /\ cWire' = VecFromCommand(c)
           /\ cRcvd' = Nothing
    /\ UNCHANGED tpVars

EncodeRequest ==
    /\ cSent = Nothing
    /\ \E c \in Command :
           /\ cSent' = [type |-> "Request", val |-> [cmd |-> c]]
           /\ cWire' = VecFromRequest([cmd |-> c])
           /\ cRcvd' = Nothing
    /\ UNCHANGED tpVars

EncodeResponse ==
    /\ cSent = Nothing
    /\ \E r \in Responses :
           /\ cSent' = [type |-> "Response", val |-> r]
           /\ cWire' = VecFromResponse(r)
           /\ cRcvd' = Nothing
    /\ UNCHANGED tpVars

Inject ==
    /\ cSent = Nothing
    /\ \E v \in WireVecs :
           /\ cSent' = [type |-> "raw"]
           /\ cWire' = v
           /\ cRcvd' = Nothing
    /\ UNCHANGED tpVars

DecodeCommand ==
    /\ cSent.type \in {"Command", "raw"}
    /\ cRcvd = Nothing
    /\ cRcvd' = [type |-> "Command", out |-> CommandFromVec(cWire)]
    /\ UNCHANGED << cSent, cWire >>
    /\ UNCHANGED tpVars

DecodeRequest ==
    /\ cSent.type \in {"Request", "raw"}
    /\ cRcvd = Nothing
    /\ cRcvd' = [type |-> "Request", out |-> RequestFromVec(cWire)]
    /\ UNCHANGED << cSent, cWire >>
    /\ UNCHANGED tpVars

DecodeResponse ==
    /\ cSent.type \in {"Response", "raw"}
    /\ cRcvd = Nothing
    /\ \E build \in Builds :
           cRcvd' = [type |-> "Response", out |-> ResponseFromVec(build, cWire)]
    /\ UNCHANGED << cSent, cWire >>
    /\ UNCHANGED tpVars

NextCodec ==
    \/ EncodeCommand
    \/ EncodeRequest
    \/ EncodeResponse
    \/ Inject
    \/ DecodeCommand
    \/ DecodeRequest
    \/ DecodeResponse

(***************************************************************************)
(* The Unix-domain-socket transport.                                       *)
(*                                                                         *)
(* One server transport runs serve() on the accept domain and read() on    *)
(* the service domain; each client owns a transport of its own, on which   *)
(* it calls connect() and then write().  A channel is named by the         *)
(* transport whose new() created it (0 is the server's); DeadChan names a  *)
(* channel none of whose receivers is left.                                *)
(***************************************************************************)
\* client transports
NumClients == 1
\* connections ever opened
MaxConns == 2
\* concurrent callers of read()
NumReaders == 1
\* failed accept attempts
MaxAcceptErrs == 1

Clients == 1..NumClients
Readers == 1..NumReaders
SrvChan == 0
DeadChan == 0 - 1

SocketPath == "sup.sock"

Err(variant) == [kind |-> "Err", err |-> variant]
Block == [kind |-> "Block"]

\* a constructor that keeps the receiver and drops the sender
new_NoSender(socket_path, ch) ==
    [socket_path |-> socket_path,
     stream |-> None,
     listen_recv |-> Some(ch),
     listen_send |-> None]

\* command.rs:44-52  UnixSocketTp::new, ch being the channel unbounded() makes
new(socket_path, ch) ==
    [socket_path |-> socket_path,
     stream |-> None,
     listen_recv |-> Some(ch),
     listen_send |-> Some(ch)]

\* a connection just opened by client c, waiting in the listener's backlog
NewConn(c) ==
    [client |-> c,
     c2s |-> << >>,          \* bytes sent by the client so far
     cliEnd |-> "tp",        \* held by the transport | "caller" | "dropped"
     cliWr |-> "open",       \* "shut" once shutdown(Write) succeeded
     srvEnd |-> "backlog",   \* "queued" | "held" | "done" | "dropped"
     s2c |-> << >>,          \* bytes sent by the server
     srvWr |-> "open",
     req |-> Nothing,        \* the Request the server decoded
     resp |-> Nothing]       \* the Response the handler returned

\* a sender of channel ch is left while some transport still holds one
SendersAlive(ch) ==
    \/ srv.listen_send = Some(ch)
    \/ \E c \in Clients : cstate[c] = "live" /\ client[c].listen_send = Some(ch)

ReceiversAlive(ch) ==
    \/ srv.listen_recv = Some(ch)
    \/ \E c \in Clients : cstate[c] = "live" /\ client[c].listen_recv = Some(ch)

Range(q) == {q[i] : i \in 1..Len(q)}

\* the connections accept() returned, in order
Accepted == SelectSeq(acceptHist, LAMBDA x : x # 0)

(***************************************************************************)
(* serve()                                                                 *)
(***************************************************************************)
\* a start that goes on to bind without removing the file at the path
ServeStart_NoRemove ==
    /\ servePc = "start"
    /\ servePc' = "bind"
    /\ UNCHANGED << fsPath, srv, backlog, acceptHist, chan, log, readPc, lastRead,
                    reads, client, cstate, wres, cresp, conns, codecVars >>

\* command.rs:65-67: remove a stale file; remove_file(..).unwrap()
ServeStart ==
    /\ servePc = "start"
    /\ \/ /\ ~fsPath
          /\ servePc' = "bind"
          /\ UNCHANGED fsPath
       \/ /\ fsPath
          /\ fsPath' = FALSE
          /\ servePc' = "bind"
       \/ /\ fsPath
          /\ servePc' = "panicked"
          /\ UNCHANGED fsPath
    /\ UNCHANGED << srv, backlog, acceptHist, chan, log, readPc, lastRead, reads,
                    client, cstate, wres, cresp, conns, codecVars >>

\* command.rs:69-72: bind, or panic
ServeBind ==
    /\ servePc = "bind"
    /\ \/ /\ ~fsPath
          /\ fsPath' = TRUE
          /\ servePc' = "accept"
       \/ /\ servePc' = "panicked"
          /\ UNCHANGED fsPath
    /\ UNCHANGED << srv, backlog, acceptHist, chan, log, readPc, lastRead, reads,
                    client, cstate, wres, cresp, conns, codecVars >>

\* where the loop goes after a failed accept, if it left the loop instead
AfterAcceptErr_Exit == "returned"

\* command.rs:77-80: log and continue
AfterAcceptErr == "accept"

\* the hand-off through a channel of capacity 1 (bounded(1)) that refuses a
\* stream while another one is queued
serve_send_Cap1(tp, q, s) ==
    IF tp.listen_send = None
    THEN [q |-> q, sent |-> FALSE, log |-> "uninit"]
    ELSE IF tp.listen_send[1] = SrvChan /\ ReceiversAlive(SrvChan) /\ Len(q) < 1
         THEN [q |-> Append(q, s), sent |-> TRUE, log |-> "none"]
         ELSE [q |-> q, sent |-> FALSE, log |-> "send"]

\* the hand-off of command.rs:82-88 with the new stream put at the head
serve_send_AtHead(tp, q, s) ==
    IF tp.listen_send = None
    THEN [q |-> q, sent |-> FALSE, log |-> "uninit"]
    ELSE IF tp.listen_send[1] = SrvChan /\ ReceiversAlive(SrvChan)
         THEN [q |-> << s >> \o q, sent |-> TRUE, log |-> "none"]
         ELSE [q |-> q, sent |-> FALSE, log |-> "send"]

\* command.rs:82-88: hand the accepted stream s to the channel whose queue is
\* q; Sender::send fails only when every receiver is gone
serve_send(tp, q, s) ==
    IF tp.listen_send = None
    THEN [q |-> q, sent |-> FALSE, log |-> "uninit"]
    ELSE IF tp.listen_send[1] = SrvChan /\ ReceiversAlive(SrvChan)
         THEN [q |-> Append(q, s), sent |-> TRUE, log |-> "none"]
         ELSE [q |-> q, sent |-> FALSE, log |-> "send"]

\* command.rs:74-89, one iteration whose accept() succeeds
AcceptOk ==
    /\ servePc = "accept"
    /\ backlog # << >>
    /\ LET s == Head(backlog)
           r == serve_send(srv, chan, s)
       IN  /\ backlog' = Tail(backlog)
           /\ acceptHist' = Append(acceptHist, s)
           /\ chan' = r.q
           /\ log' = IF r.log = "none" THEN log ELSE [log EXCEPT ![r.log] = @ + 1]
           /\ conns' = [conns EXCEPT ![s].srvEnd = IF r.sent THEN "queued" ELSE "dropped"]
    /\ UNCHANGED << fsPath, servePc, srv, readPc, lastRead, reads, client, cstate,
                    wres, cresp, codecVars >>

\* command.rs:75-81, one iteration whose accept() fails on a pending
\* connection (which stays pending)
AcceptErr ==
    /\ servePc = "accept"
    /\ backlog # << >>
    /\ log.accept < MaxAcceptErrs
    /\ acceptHist' = Append(acceptHist, 0)
    /\ log' = [log EXCEPT !.accept = @ + 1]
    /\ servePc' = AfterAcceptErr
    /\ UNCHANGED << fsPath, srv, backlog, chan, readPc, lastRead, reads, client,
                    cstate, wres, cresp, conns, codecVars >>

(***************************************************************************)
(* read()                                                                  *)
(***************************************************************************)
\* a read that reports an empty queue instead of waiting (try_recv)
read_NoWait(tp, q) ==
    IF tp.listen_recv = None
    THEN Err("ChannelUsedBeforeInited")
    ELSE IF q # << >>
         THEN Ok(Head(q))
         ELSE Err("ReadFromChannelFail")

\* command.rs:92-110: what read() returns when the queue of its channel is q;
\* select! { recv(rcv) } yields the oldest message, fails once the queue is
\* empty and every sender is gone, and otherwise waits
read(tp, q) ==
    IF tp.listen_recv = None
    THEN Err("ChannelUsedBeforeInited")
    ELSE IF q # << >>
         THEN Ok(Head(q))
         ELSE IF ~SendersAlive(tp.listen_recv[1])
              THEN Err("ReadFromChannelFail")
              ELSE Block

\* a receive that returns the message and leaves it in the queue
Without_Keep(q, x) == q

\* q without its first occurrence of x
RECURSIVE Without(_, _)
Without(q, x) ==
    IF q = << >>
    THEN << >>
    ELSE IF Head(q) = x THEN Tail(q) ELSE << Head(q) >> \o Without(Tail(q), x)

\* what a read() that returns out does to the state
ReadEffect(r, out) ==
    /\ lastRead' = out
    /\ IF out.kind = "Ok"
       THEN /\ chan' = Without(chan, out.val)
            /\ reads' = Append(reads, out.val)
            /\ conns' = [conns EXCEPT ![out.val].srvEnd = "held"]
       ELSE UNCHANGED << chan, reads, conns >>
    /\ readPc' = [readPc EXCEPT ![r] = "idle"]

\* command.rs:92-110: a call of read(); it returns at once when the channel
\* has a message or is unusable, and otherwise stays inside recv ("waiting")
Read(r) ==
    /\ readPc[r] = "idle"
    /\ LET out == read(srv, chan)
       IN  IF out.kind = "Block"
           THEN /\ readPc' = [readPc EXCEPT ![r] = "waiting"]
                /\ UNCHANGED << lastRead, chan, reads, conns >>
           ELSE ReadEffect(r, out)
    /\ UNCHANGED << fsPath, servePc, srv, backlog, acceptHist, log, client, cstate,
                    wres, cresp, codecVars >>

\* command.rs:95-106: the waiting recv completes
ReadWake(r) ==
    /\ readPc[r] = "waiting"
    /\ LET out == read(srv, chan)
       IN  /\ out.kind # "Block"
           /\ ReadEffect(r, out)
    /\ UNCHANGED << fsPath, servePc, srv, backlog, acceptHist, log, client, cstate,
                    wres, cresp, codecVars >>

(***************************************************************************)
(* connect() and write()                                                   *)
(***************************************************************************)
\* a connect that keeps the stream the transport already holds
connect_KeepHeld(tp, s) ==
    IF tp.stream = None THEN [tp EXCEPT !.stream = Some(s)] ELSE tp

\* command.rs:56-62 on transport tp, s being the stream UnixStream::connect
\* returned
connect(tp, s) == [tp EXCEPT !.stream = Some(s)]

\* what the stream does with a write of v and with the shutdown after it:
\* Write::write fails, or accepts the first n bytes (n >= 1 unless v is empty)
WriteIo(v) ==
    {[wr |-> "Err", n |-> 0, sd |-> "-"]} \cup
    {[wr |-> "Ok", n |-> k, sd |-> d] :
        k \in (IF Len(v) = 0 THEN {0} ELSE 1..Len(v)), d \in {"Ok", "Err"}}

NoIo == [wr |-> "-", n |-> 0, sd |-> "-"]

\* a write that returns the stream although shutdown failed
write_IgnoreShutdownErr(tp, v, io) ==
    IF tp.stream = None
    THEN [result |-> Err("StreamUsedBeforeInited"), calls |-> << >>,
          wrote |-> << >>, halfClosed |-> FALSE]
    ELSE IF io.wr = "Ok"
         THEN [result |-> Ok(tp.stream[1]), calls |-> << "write", "shutdown" >>,
               wrote |-> SubSeq(v, 1, io.n), halfClosed |-> io.sd = "Ok"]
         ELSE [result |-> Err("WriteToStreamFailed"), calls |-> << "write" >>,
               wrote |-> << >>, halfClosed |-> FALSE]

\* command.rs:113-129: write(self, v) when the stream behaves as io says.
\* result is what it returns, calls the I/O calls it made on the stream,
\* wrote the bytes the stream took, halfClosed whether shutdown(Write) was done
write(tp, v, io) ==
    IF tp.stream = None
    THEN [result |-> Err("StreamUsedBeforeInited"), calls |-> << >>,
          wrote |-> << >>, halfClosed |-> FALSE]
    ELSE IF io.wr = "Ok"
         THEN IF io.sd = "Err"
              THEN [result |-> Err("ShutdownStreamFailed"),
                    calls |-> << "write", "shutdown" >>,
                    wrote |-> SubSeq(v, 1, io.n), halfClosed |-> FALSE]
              ELSE [result |-> Ok(tp.stream[1]),
                    calls |-> << "write", "shutdown" >>,
                    wrote |-> SubSeq(v, 1, io.n), halfClosed |-> TRUE]
         ELSE [result |-> Err("WriteToStreamFailed"), calls |-> << "write" >>,
               wrote |-> << >>, halfClosed |-> FALSE]

\* what a client sends: Request{Start}, or a malformed 2-byte request
ClientPayloads == {VecFromRequest([cmd |-> "Start"]), << 0, 7 >>}

\* command.rs:56-62: connect(); the stream held before, if any, is dropped
Connect(c) ==
    /\ cstate[c] = "live"
    /\ IF servePc = "accept"
       THEN /\ Len(conns) < MaxConns
            /\ LET s == Len(conns) + 1
                   old == client[c].stream
                   dropped == IF old = None
                              THEN conns
                              ELSE [conns EXCEPT ![old[1]].cliEnd = "dropped"]
               IN  /\ client' = [client EXCEPT ![c] = connect(@, s)]
                   /\ conns' = Append(dropped, NewConn(c))
                   /\ backlog' = Append(backlog, s)
            /\ UNCHANGED cstate
       ELSE /\ cstate' = [cstate EXCEPT ![c] = "panicked"]
            /\ UNCHANGED << client, conns, backlog >>
    /\ UNCHANGED << fsPath, servePc, srv, acceptHist, chan, log, readPc, lastRead,
                    reads, wres, cresp, codecVars >>

\* a write taking &mut self, which leaves the transport usable
AfterWrite_InPlace == "live"

\* command.rs:113: write(self, v) takes the transport by value, so the caller
\* has no transport left once the call is made
AfterWrite == "consumed"

\* the live transports that hold connection k
Holders(k) == {c \in Clients : cstate[c] = "live" /\ client[c].stream = Some(k)}

\* command.rs:113-129: write(self, v); the transport is consumed, and the
\* stream is dropped unless write returns it
ClientWrite(c) ==
    /\ cstate[c] = "live"
    /\ \E v \in ClientPayloads :
       \E io \in (IF client[c].stream = None THEN {NoIo} ELSE WriteIo(v)) :
           LET w == write(client[c], v, io)
           IN  /\ wres' = [wres EXCEPT ![c] = [v |-> v, io |-> io, out |-> w]]
               /\ conns' =
                      IF client[c].stream = None
                      THEN conns
                      ELSE [conns EXCEPT ![client[c].stream[1]] =
                               [@ EXCEPT !.c2s = @ \o w.wrote,
                                         !.cliWr = IF w.halfClosed THEN "shut" ELSE @,
                                         !.cliEnd = IF w.result.kind = "Ok"
                                                    THEN "caller" ELSE "dropped"]]
    /\ cstate' = [cstate EXCEPT ![c] = AfterWrite]
    /\ UNCHANGED << fsPath, servePc, srv, backlog, acceptHist, chan, log, readPc,
                    lastRead, reads, client, cresp, codecVars >>

(***************************************************************************)
(* The exchange on a connection (spec.md 2 and 8; the daemon's service     *)
(* loop and the control client are not part of command.rs).                *)
(***************************************************************************)
UnknownMsg == << 63 >>

\* spec.md 4.4: the handler; Unknown is reported back with no PID
handle_command(r) ==
    IF r.cmd = "Unknown"
    THEN Response(UnknownMsg, None)
    ELSE Response(Started, Some(Pid4242))

\* the client's end of connection k has reached end-of-stream
ClientEof(k) == k.cliWr = "shut" \/ k.cliEnd = "dropped"

\* spec.md 2: the consumer reads the request to end-of-stream, decodes it,
\* invokes the handler, writes the encoded Response back and half-closes
Service(s) ==
    /\ conns[s].srvEnd = "held"
    /\ LET req == RequestFromVec(conns[s].c2s)
       IN  /\ ClientEof(conns[s])
           /\ conns' =
                  IF req.kind = "Ok"
                  THEN LET resp == handle_command(req.val)
                       IN  [conns EXCEPT ![s] =
                               [@ EXCEPT !.req = req,
                                         !.resp = resp,
                                         !.s2c = VecFromResponse(resp),
                                         !.srvWr = "shut",
                                         !.srvEnd = "done"]]
                  ELSE [conns EXCEPT ![s] = [@ EXCEPT !.req = req, !.srvEnd = "dropped"]]
    /\ UNCHANGED << fsPath, servePc, srv, backlog, acceptHist, chan, log, readPc,
                    lastRead, reads, client, cstate, wres, cresp, codecVars >>

\* spec.md 8: the client reads the stream write() returned to end-of-stream
\* and decodes the Response
ClientReceive(c) ==
    /\ cstate[c] = "consumed"
    /\ wres[c].out.result.kind = "Ok"
    /\ cresp[c] = Nothing
    /\ LET k == conns[wres[c].out.result.val]
       IN  /\ k.srvWr = "shut" \/ k.srvEnd = "dropped"
           /\ \E build \in Builds :
                  cresp' = [cresp EXCEPT ![c] = ResponseFromVec(build, k.s2c)]
    /\ UNCHANGED << fsPath, servePc, srv, backlog, acceptHist, chan, log, readPc,
                    lastRead, reads, client, cstate, wres, conns, codecVars >>

(***************************************************************************)
(* Specifications.                                                         *)
(***************************************************************************)
NoCall == [v |-> << >>, io |-> NoIo, out |-> Nothing]

InitTpRest ==
    /\ fsPath \in BOOLEAN
    /\ servePc = "start"
    /\ backlog = << >>
    /\ acceptHist = << >>
    /\ chan = << >>
    /\ log = [accept |-> 0, send |-> 0, uninit |-> 0]
    /\ readPc = [r \in Readers |-> "idle"]
    /\ lastRead = Nothing
    /\ reads = << >>
    /\ client = [c \in Clients |-> new(SocketPath, c)]
    /\ cstate = [c \in Clients |-> "live"]
    /\ wres = [c \in Clients |-> NoCall]
    /\ cresp = [c \in Clients |-> Nothing]
    /\ conns = << >>

\* every transport is built by new()
InitTp ==
    /\ srv = new(SocketPath, SrvChan)
    /\ InitTpRest

\* the server's transport is any value of its type: each endpoint absent, or
\* present, the sender possibly of a channel that has lost its receivers
InitFields ==
    /\ srv \in [socket_path : {SocketPath},
                stream : {None},
                listen_recv : {None, Some(SrvChan)},
                listen_send : {None, Some(SrvChan), Some(DeadChan)}]
    /\ InitTpRest

Init == InitTp /\ InitCodec

InitAnyFields == InitFields /\ InitCodec

InitCodecOnly == InitCodec /\ InitTp

NextTp ==
    \/ ServeStart
    \/ ServeBind
    \/ AcceptOk
    \/ AcceptErr
    \/ \E r \in Readers : Read(r)
    \/ \E r \in Readers : ReadWake(r)
    \/ \E c \in Clients : Connect(c)
    \/ \E c \in Clients : ClientWrite(c)

Next == NextTp

NextExchange ==
    \/ NextTp
    \/ \E s \in 1..Len(conns) : Service(s)
    \/ \E c \in Clients : ClientReceive(c)

\* the transport, every transport built by new()
Spec == Init /\ [][Next]_vars

\* the transport, the server's fields ranging over every value of their types
SpecFields == InitAnyFields /\ [][Next]_vars

\* the transport with the exchange of spec.md 2 on each connection
SpecExchange == Init /\ [][NextExchange]_vars

\* the transport with a consumer that keeps calling read(): a call of read()
\* that can be made or can return eventually is or does
ConsumerStep == \E r \in Readers : Read(r) \/ ReadWake(r)

SpecFair == Init /\ [][Next]_vars /\ WF_vars(ConsumerStep)

\* the codec alone
SpecCodec == InitCodecOnly /\ [][NextCodec]_vars

(***************************************************************************)
(* Claims about the codec (checked under SpecCodec).                       *)
(***************************************************************************)

\* C1: Command round-trip. For each of the seven named commands c, decoding
\* the bytes that encoding c produced yields c again.
C1_CommandRoundTrip ==
    (cSent.type = "Command" /\ cSent.val \in NamedCommands /\ cRcvd.type = "Command")
        => cRcvd.out = Ok(cSent.val)

C1_Witness ==
    /\ cSent.type = "Command"
    /\ cSent.val = "Exit"
    /\ cWire = << 6 >>
    /\ cRcvd.type = "Command"
    /\ cRcvd.out = Ok("Exit")

\* C2: Unknown absorption and totality of Command decode. Decoding any byte
\* sequence as a Command or as a Request completes with exactly one Command
\* (never a failure), and that Command is Unknown whenever the length is not
\* 1 or the single byte is outside 0..6 (the byte 7 included).
C2_DecodeTotalUnknown ==
    cRcvd.type \in {"Command", "Request"} =>
        /\ cRcvd.out.kind = "Ok"
        /\ LET c == IF cRcvd.type = "Command" THEN cRcvd.out.val ELSE cRcvd.out.val.cmd
           IN  /\ c \in Command
               /\ (Len(cWire) # 1 \/ cWire[1] \notin 0..6) => c = "Unknown"

C2_Witness ==
    /\ cSent.type = "raw"
    /\ Len(cWire) = 3
    /\ cRcvd.type = "Request"
    /\ cRcvd.out = Ok([cmd |-> "Unknown"])

\* C3: Response round-trip. For every message m and every p that is None or
\* Some(p) with 0 < p < 2^32, decoding the bytes that encoding Response{m, p}
\* produced yields a Response with the same message and the same sup_pid.
C3_ResponseRoundTrip ==
    (/\ cSent.type = "Response"
     /\ cSent.val.sup_pid # Some(U32(0, 0))
     /\ cRcvd.type = "Response")
        => cRcvd.out = Ok(cSent.val)

\* C9: Decoding a Response never crashes on malformed input: for every byte
\* sequence received from the peer, Response decoding completes without
\* aborting the process.
C9_ResponseDecodeNeverPanics ==
    (cSent.type = "raw" /\ cRcvd.type = "Response") => cRcvd.out.kind = "Ok"

\* C10: Sentinel equivalence. For every message m, encoding Response{m, None}
\* and encoding Response{m, Some(0)} produce the same bytes: four zero bytes
\* followed by the bytes of m.
C10_SentinelEquivalence ==
    (cSent.type = "Response" /\ cSent.val.sup_pid \in {None, Some(U32(0, 0))})
        => /\ cWire = << 0, 0, 0, 0 >> \o cSent.val.message
           /\ cWire = VecFromResponse(Response(cSent.val.message, None))
           /\ cWire = VecFromResponse(Response(cSent.val.message, Some(U32(0, 0))))

C10_Witness ==
    /\ cSent.type = "Response"
    /\ cSent.val = Response(<< 97 >>, Some(U32(0, 0)))
    /\ cWire = << 0, 0, 0, 0, 97 >>

\* C11: Response encode layout. For every Response{m, p} the encoded bytes
\* have length 4 + len(m); bytes 0..3 are the PID (0 when p is None) most
\* significant byte first, byte k being (pid >> (24 - 8k)) mod 256; and the
\* bytes from 4 on are exactly the UTF-8 bytes of m in order.
C11_EncodeLayout ==
    cSent.type = "Response" =>
        LET m == cSent.val.message
            p == cSent.val.sup_pid
            hi == IF p = None THEN 0 ELSE p[1][1]
            lo == IF p = None THEN 0 ELSE p[1][2]
        IN  /\ Len(cWire) = 4 + Len(m)
            /\ cWire[1] = hi \div 256
            /\ cWire[2] = hi % 256
            /\ cWire[3] = lo \div 256
            /\ cWire[4] = lo % 256
            /\ \A i \in 1..Len(m) : cWire[4 + i] = m[i]

C11_Witness ==
    /\ cSent.type = "Response"
    /\ cSent.val = Response(<< 195, 169 >>, Some(U32FromBytes(1, 0, 16, 146)))
    /\ cWire = << 1, 0, 16, 146, 195, 169 >>

\* C12: Response decode of the PID field. For every input of at least 4
\* bytes with a valid UTF-8 tail, the decoded sup_pid is computed from the
\* first four bytes b0..b3 as b0 + b1*2^8 + b2*2^16 + b3*2^24 (the first byte
\* least significant); it is None exactly when that sum is 0 and Some(sum)
\* otherwise, so a decoded Response never carries Some(0).
C12_DecodePidLsbFirst ==
    (/\ cRcvd.type = "Response"
     /\ Len(cWire) >= 4
     /\ IsUtf8(SubSeq(cWire, 5, Len(cWire))))
        => LET hi == cWire[4] * 256 + cWire[3]
               lo == cWire[2] * 256 + cWire[1]
           IN  /\ cRcvd.out.kind = "Ok"
               /\ cRcvd.out.val.sup_pid =
                      IF hi = 0 /\ lo = 0 THEN None ELSE Some(U32(hi, lo))
               /\ cRcvd.out.val.sup_pid # Some(U32(0, 0))

C12_Witness ==
    /\ cSent.type = "raw"
    /\ cWire = << 1, 7, 0, 97, 97 >>
    /\ cRcvd.type = "Response"
    /\ cRcvd.out = Ok(Response(<< 97 >>, Some(U32(97 * 256, 7 * 256 + 1))))

\* C20: PID reconstruction never overflows or over-shifts. The Response
\* decoder passes exactly 4 bytes to unmarshal_sup_pid with the accumulator
\* starting at 0, so every shift amount is one of 0, 8, 16, 24 and every
\* partial sum stays within 0..2^32-1: decoding never stops on an arithmetic
\* overflow in a build that checks for it, and nothing wraps in a build that
\* does not.
C20_NoOverflowInPidSum ==
    (cRcvd.type = "Response" /\ Len(cWire) >= BYTES_PER_PID) =>
        LET f == SubSeq(cWire, 1, BYTES_PER_PID)
            partial(build, n) == SumShifted(build, U32(0, 0), SubSeq(f, 1, n), 0)
        IN  /\ cRcvd.out # Panic("arithmetic overflow")
            /\ Len(f) = 4
            /\ \A i \in 0..(Len(f) - 1) : 8 * i \in {0, 8, 16, 24}
            /\ \A n \in 0..Len(f) :
                   /\ partial("debug", n).kind = "Ok"
                   /\ partial("release", n) = partial("debug", n)
                   /\ partial("debug", n).val[1] \in 0..(Half - 1)
                   /\ partial("debug", n).val[2] \in 0..(Half - 1)
            /\ cRcvd.out.kind = "Ok" =>
                   cRcvd.out.val.sup_pid \in {None, Some(partial("debug", 4).val)}

C20_Witness ==
    /\ cSent.type = "Response"
    /\ cWire = << 255, 255, 255, 255, 97 >>
    /\ cRcvd.type = "Response"
    /\ cRcvd.out = Ok(Response(<< 97 >>, Some(U32(Half - 1, Half - 1))))

(***************************************************************************)
(* Claims about the transport.                                             *)
(***************************************************************************)

\* C4: FIFO servicing. The connections read() has returned so far, followed
\* by those still queued, are the accepted connections in the order accept()
\* returned them: successive reads return connections in acceptance order,
\* whatever the interleaving of accept steps and read calls.
C4_FifoServicing == reads \o chan = Accepted

C4_Witness ==
    /\ Len(reads) >= 2
    /\ reads = Accepted
    /\ log.accept > 0

\* C5: End-to-end exchange (checked under SpecExchange). When the client sent
\* Request{Start} (the byte 0) and half-closed, and the handler returned
\* Response{"started", Some(4242)}, the server wrote [0,0,16,146] followed by
\* "started", and the client, reading to end-of-stream and decoding, obtains
\* the identical Response{"started", Some(4242)}.
C5_EndToEnd ==
    \A c \in Clients :
        (/\ cstate[c] = "consumed"
         /\ wres[c].out.result.kind = "Ok"
         /\ cresp[c] # Nothing
         /\ conns[wres[c].out.result.val].c2s = << 0 >>
         /\ conns[wres[c].out.result.val].resp = Response(Started, Some(Pid4242)))
            => /\ conns[wres[c].out.result.val].s2c = << 0, 0, 16, 146 >> \o Started
               /\ cresp[c] = Ok(Response(Started, Some(Pid4242)))

\* C6: The accept loop never stops listening. Once serve() is in its loop it
\* stays there at every step; a failed accept only adds a log line and leaves
\* the queue and the pending connections alone; and every successful accept,
\* also after a failed one, appends the accepted connection to the queue.
C6_AcceptLoopNeverStops ==
    [][servePc = "accept" =>
          /\ servePc' = "accept"
          /\ Len(acceptHist') > Len(acceptHist) =>
                 LET x == acceptHist'[Len(acceptHist')]
                 IN  IF x = 0
                     THEN /\ chan' = chan
                          /\ backlog' = backlog
                          /\ log'.accept = log.accept + 1
                     ELSE chan' = Append(chan, x)]_vars

C6_Witness ==
    \E i, j \in 1..Len(acceptHist) :
        /\ i < j
        /\ acceptHist[i] = 0
        /\ acceptHist[j] # 0
        /\ acceptHist[j] \in Range(chan)
        /\ servePc = "accept"

\* C7: Outcomes of write(bytes). With no held connection it fails with
\* StreamUsedBeforeInited and does no I/O; if the send fails it returns
\* WriteToStreamFailed without attempting the half-close; if the send succeeds
\* and the half-close fails it returns ShutdownStreamFailed; only when both
\* succeed does it return the connection, whose write direction is then shut
\* while the stream itself stays open in the caller's hands.  The three
\* errors are pairwise distinct.
C7_WriteOutcomes ==
    [][\A c \in Clients :
          (cstate[c] = "live" /\ cstate'[c] = "consumed") =>
              LET had == client[c].stream
                  w == wres'[c]
                  res == w.out.result
              IN  /\ had = None =>
                         /\ res = Err("StreamUsedBeforeInited")
                         /\ w.out.calls = << >>
                         /\ conns' = conns
                  /\ (had # None /\ w.io.wr = "Err") =>
                         /\ res = Err("WriteToStreamFailed")
                         /\ w.out.calls = << "write" >>
                         /\ conns'[had[1]].cliWr = "open"
                  /\ (had # None /\ w.io.wr = "Ok" /\ w.io.sd = "Err") =>
                         /\ res = Err("ShutdownStreamFailed")
                         /\ w.out.calls = << "write", "shutdown" >>
                  /\ (had # None /\ w.io.wr = "Ok" /\ w.io.sd = "Ok") =>
                         /\ res = Ok(had[1])
                         /\ conns'[had[1]].cliWr = "shut"
                         /\ conns'[had[1]].cliEnd = "caller"
                  /\ res.kind = "Ok" => (had # None /\ w.io.wr = "Ok" /\ w.io.sd = "Ok")
                  /\ Cardinality({Err("StreamUsedBeforeInited"), Err("WriteToStreamFailed"),
                                  Err("ShutdownStreamFailed"), res}) >= 3]_vars

C7_Witness ==
    \E c \in Clients :
        /\ cstate[c] = "consumed"
        /\ wres[c].io.sd = "Ok"
        /\ wres[c].out.result.kind = "Ok"
        /\ conns[wres[c].out.result.val].cliWr = "shut"
        /\ conns[wres[c].out.result.val].cliEnd = "caller"

\* C8: Outcomes of read() (checked under SpecFields). A read returns the
\* oldest queued connection; with no receiver it fails with
\* ChannelUsedBeforeInited; with an empty queue whose senders are all gone it
\* fails with the different error ReadFromChannelFail; and with an empty
\* queue whose sender is alive it neither returns nor reports an error: the
\* caller waits.
C8_ReadOutcomes ==
    [][/\ reads' # reads =>
              /\ srv.listen_recv # None
              /\ chan # << >>
              /\ reads' = Append(reads, Head(chan))
              /\ chan' = Tail(chan)
              /\ lastRead' = Ok(Head(chan))
       /\ (lastRead' # lastRead /\ lastRead'.kind = "Err") =>
              \/ /\ srv.listen_recv = None
                 /\ lastRead' = Err("ChannelUsedBeforeInited")
              \/ /\ srv.listen_recv # None
                 /\ chan = << >>
                 /\ ~SendersAlive(SrvChan)
                 /\ lastRead' = Err("ReadFromChannelFail")
       /\ (srv.listen_recv # None /\ chan = << >> /\ SendersAlive(SrvChan)) =>
              /\ lastRead' = lastRead
              /\ reads' = reads
              /\ \A r \in Readers : readPc'[r] # readPc[r] => readPc'[r] = "waiting"
       /\ \A r \in Readers :
              (readPc[r] = "idle" /\ readPc'[r] = "waiting") =>
                  (srv.listen_recv # None /\ chan = << >> /\ SendersAlive(SrvChan))]_vars

C8_Witness ==
    /\ lastRead = Err("ReadFromChannelFail")
    /\ srv.listen_recv # None
    /\ srv.listen_send # Some(SrvChan)
    /\ chan = << >>

\* C13: A message is fully sent before the half-close. Whenever write(bytes)
\* has returned success, every byte of the given vector has been written to
\* the connection before its write direction was shut down, so the peer
\* reading to end-of-stream receives exactly the given bytes and never a
\* proper prefix, also when the stream's write accepts fewer bytes than
\* offered.
C13_FullySentBeforeHalfClose ==
    \A c \in Clients :
        (cstate[c] = "consumed" /\ wres[c].out.result.kind = "Ok")
            => LET k == conns[wres[c].out.result.val]
               IN  /\ k.cliWr = "shut"
                   /\ k.c2s = wres[c].v

\* C14: Exactly-once hand-off through the queue. Each read() that returns
\* successfully removes and returns exactly one queued connection; and under
\* every interleaving of the accept loop with the callers of read(), no
\* connection is returned twice, none is returned that was never accepted,
\* and every accepted connection is either still queued or was returned by a
\* read (none is lost while queued, none is duplicated).
C14_ExactlyOnceHandOff ==
    [][/\ reads' # reads =>
              \E s \in Range(chan) :
                  /\ reads' = Append(reads, s)
                  /\ Len(chan') = Len(chan) - 1
                  /\ Range(chan') = Range(chan) \ {s}
       /\ \A i, j \in 1..Len(reads') : reads'[i] = reads'[j] => i = j
       /\ \A i, j \in 1..Len(chan') : chan'[i] = chan'[j] => i = j
       /\ Range(reads') \cap Range(chan') = {}
       /\ Range(reads') \cup Range(chan') = {x \in Range(acceptHist') : x # 0}]_vars

C14_Witness ==
    /\ Len(reads) = 1
    /\ Len(chan) = 1
    /\ reads[1] # chan[1]
    /\ \E r \in Readers : readPc[r] = "idle"
    /\ Len(Accepted) = 2

\* C15: The accept loop runs independently of the consumer (checked under
\* SpecFair). Whenever the loop has a pending connection it can take its next
\* step, and that step enqueues the connection, however many connections are
\* queued and whether or not a read() is waiting; and when the consumer keeps
\* calling read(), every accepted connection is eventually returned by some
\* read().  A connection once accepted stays accepted and once returned stays
\* returned (second conjunct), so that "accepted leads to returned" is
\* "eventually, for good, returned if accepted" (third conjunct).
C15_AcceptIndependentOfConsumer ==
    /\ [](servePc = "accept" /\ backlog # << >> =>
              /\ ENABLED AcceptOk
              /\ serve_send(srv, chan, Head(backlog)).sent
              /\ serve_send(srv, chan, Head(backlog)).q = Append(chan, Head(backlog)))
    /\ [][/\ Range(acceptHist) \subseteq Range(acceptHist')
          /\ Range(reads) \subseteq Range(reads')]_vars
    /\ \A s \in 1..MaxConns :
           <>[](s \in Range(Accepted) => s \in Range(reads))

C15_Witness ==
    /\ Len(chan) = 2
    /\ \A r \in Readers : readPc[r] = "idle"
    /\ reads = << >>
    /\ servePc = "accept"

\* C16: Single-writer ownership. write() consumes the transport together with
\* the connection it holds: a transport's write() is called at most once, and
\* once it was called the transport is gone for good; a connection is held by
\* at most one transport, bytes are put on it only by the one write() of the
\* transport holding it, and after write() returned it the connection is owned
\* by that caller alone and held by no transport.
C16_SingleWriter ==
    [][/\ \A c \in Clients :
              /\ wres'[c] # wres[c] =>
                     /\ wres[c] = NoCall
                     /\ cstate[c] = "live"
                     /\ cstate'[c] = "consumed"
              /\ cstate[c] = "consumed" =>
                     /\ cstate'[c] = "consumed"
                     /\ wres'[c] = wres[c]
                     /\ client'[c] = client[c]
       /\ \A k \in 1..Len(conns') :
              /\ Cardinality(Holders(k)') <= 1
              /\ conns'[k].cliEnd = "tp" <=> Holders(k)' # {}
              /\ conns'[k].cliEnd = "caller" =>
                     Cardinality({c \in Clients :
                                     /\ wres'[c] # NoCall
                                     /\ wres'[c].out.result.kind = "Ok"
                                     /\ wres'[c].out.result.val = k}) = 1
              /\ (k <= Len(conns) /\ conns'[k].c2s # conns[k].c2s) =>
                     /\ conns[k].c2s = << >>
                     /\ \E c \in Holders(k) :
                            /\ cstate'[c] = "consumed"
                            /\ conns'[k].c2s = wres'[c].out.wrote]_vars

C16_Witness ==
    \E c \in Clients :
        /\ cstate[c] = "consumed"
        /\ Len(conns) = 2
        /\ conns[1].cliEnd = "dropped"
        /\ conns[1].c2s = << >>
        /\ conns[2].cliEnd = "caller"
        /\ conns[2].c2s = << 0 >>
        /\ wres[c].out.result = Ok(2)
        /\ Holders(2) = {}

\* C17: connect() on a transport that already holds a connection is not
\* rejected: it opens a new connection and replaces the held one, which is
\* dropped. After every successful connect() the transport holds exactly the
\* connection opened last, and leaves its socket path and both queue endpoints
\* as they were; a following write() sends on that newest connection.
C17_ConnectReplaces ==
    [][/\ Len(conns') > Len(conns) =>
              LET s == Len(conns')
                  c == conns'[s].client
              IN  /\ s = Len(conns) + 1
                  /\ cstate[c] = "live" /\ cstate'[c] = "live"
                  /\ client'[c].stream = Some(s)
                  /\ client'[c].socket_path = client[c].socket_path
                  /\ client'[c].listen_recv = client[c].listen_recv
                  /\ client'[c].listen_send = client[c].listen_send
                  /\ client[c].stream # None =>
                         conns'[client[c].stream[1]].cliEnd = "dropped"
                  /\ \A d \in Clients \ {c} : client'[d] = client[d]
       /\ \A c \in Clients :
              (cstate[c] = "live" /\ cstate'[c] = "consumed" /\ client[c].stream # None) =>
                  LET k == client[c].stream[1]
                  IN  /\ conns[k].client = c
                      /\ \A j \in 1..Len(conns) : conns[j].client = c => j <= k
                      /\ conns'[k].c2s = conns[k].c2s \o wres'[c].out.wrote
                      /\ \A j \in 1..Len(conns) : j # k => conns'[j] = conns[j]]_vars

C17_Witness ==
    \E c \in Clients :
        /\ cstate[c] = "live"
        /\ client[c] = [new(SocketPath, c) EXCEPT !.stream = Some(2)]
        /\ conns[1].client = c
        /\ conns[1].cliEnd = "dropped"
        /\ conns[2].client = c
        /\ conns[2].cliEnd = "tp"

\* C18: Server startup ordering. serve() first removes the file existing at
\* the socket path, if any, then binds the listener at that path, and enters
\* the accept loop only after a successful bind; when the removal or the bind
\* fails, serve() terminates fatally, and it has then never accepted or
\* enqueued a connection.
C18_StartupOrdering ==
    [][/\ servePc = "start" =>
              /\ servePc' \in {"start", "bind", "panicked"}
              /\ servePc' = "bind" => ~fsPath'
              /\ (servePc' = "panicked" \/ servePc' = "start") => fsPath' = fsPath
       /\ servePc = "bind" =>
              /\ servePc' \in {"bind", "accept", "panicked"}
              /\ servePc' = "accept" => (~fsPath /\ fsPath')
              /\ servePc' # "accept" => fsPath' = fsPath
       /\ servePc = "panicked" => servePc' = "panicked"
       /\ servePc' # "accept" =>
              /\ acceptHist' = << >>
              /\ chan' = << >>
              /\ reads' = << >>
       /\ (acceptHist' # acceptHist \/ Len(chan') > Len(chan)) => servePc = "accept"]_vars

C18_Witness ==
    /\ servePc = "panicked"
    /\ ~fsPath
    /\ acceptHist = << >>
    /\ chan = << >>
    /\ \E c \in Clients : cstate[c] = "panicked"

\* C19: For every transport built by UnixSocketTp::new both queue endpoints
\* are present in every reachable state, and the transport itself holds the
\* sender of the channel its read() receives from. Hence read() never returns
\* either of its errors (channel used before initialization, sender
\* disconnected); and a read() on the empty queue after serve() has terminated
\* does not report an error: it waits, and keeps waiting.
C19_EndpointsAlwaysPresent ==
    /\ [](/\ srv.listen_recv = Some(SrvChan)
          /\ srv.listen_send = Some(SrvChan)
          /\ \A c \in Clients :
                 cstate[c] = "live" =>
                     (client[c].listen_recv = Some(c) /\ client[c].listen_send = Some(c))
          /\ SendersAlive(srv.listen_recv[1])
          /\ read(srv, chan).kind \in {"Ok", "Block"}
          /\ lastRead = Nothing \/ lastRead.kind = "Ok"
          /\ servePc = "panicked" => (chan = << >> /\ read(srv, chan) = Block))
    /\ [][\A r \in Readers :
              /\ (servePc = "panicked" /\ readPc[r] = "idle" /\ readPc'[r] # "idle") =>
                     (readPc'[r] = "waiting" /\ lastRead' = lastRead)
              /\ (servePc = "panicked" /\ readPc[r] = "waiting") =>
                     (readPc'[r] = "waiting" /\ lastRead' = lastRead)]_vars

C19_Witness ==
    /\ servePc = "panicked"
    /\ chan = << >>
    /\ \E r \in Readers : readPc[r] = "waiting"
    /\ lastRead = Nothing
    /\ srv = new(SocketPath, SrvChan)

==========================================================================
